---- MODULE Spec2Model ----
(***************************************************************************)
(* A model of Voliware/node-mongo: the Collection wrapper (collection.js,  *)
(* kept as src/unnamed/part_000) and the Database wrapper (database.js).   *)
(*                                                                         *)
(* JavaScript values are tagged records: t is the value's kind, the other  *)
(* field its content.  An object is a function from its own keys to        *)
(* values; deleting a key restricts the function's domain.                 *)
(***************************************************************************)
EXTENDS Integers, Sequences, FiniteSets, TLC

VARIABLES
    filter,           \* processFilter / sanitizeFilter: the filter object, mutated in place
    given,            \* the filter as the caller built it (history)
    prev,             \* the filter as it was before the most recent call (history)
    fpc,              \* "ready", "returned" or "thrown": how the most recent call ended
    calls,            \* number of calls made on the filter
    call,             \* Collection: the operation called and its arguments as passed
    docs,             \* Collection: the remote collection, native _id -> name of the document
    sent,             \* Collection: the request the driver received in the current operation
    ret,              \* the outcome of the current operation: a value or a thrown error
    log,              \* the logger calls of the current operation, in order
    options,          \* Database constructor: the options object
    url,              \* Database.url
    collection_names, \* Database.collection_names
    collections,      \* Database.collections: names registered in the Map
    remote,           \* names of the collections that exist on the server
    discovered,       \* names listCollections reported (history)
    created,          \* names for which db.createCollection was issued, in order
    missing,          \* createCollections: the local list of missing names
    failures,         \* count of driver calls that failed during initialize
    connected,        \* whether client.connect() has succeeded
    dpc               \* position inside Database.initialize

filterVars == <<filter, given, prev, fpc, calls>>
collVars == <<call, docs, sent, ret, log>>
urlVars == <<options, url>>
dbVars ==
    <<collection_names, collections, remote, discovered, created, missing, failures,
      connected, dpc>>
vars == <<filterVars, collVars, urlVars, dbVars>>

\* Bounds of the model.
MaxLen == 2
MaxCalls == 2
SanLen == 1
MaxNames == 2

----------------------------------------------------------------------------
(* JavaScript values *)

Str(s) == [t |-> "string", s |-> s]
Num(n) == [t |-> "number", n |-> n]
Oid(n) == [t |-> "oid", n |-> n]
Arr(e) == [t |-> "array", e |-> e]
Obj(m) == [t |-> "object", m |-> m]
Null == [t |-> "null"]
Undefined == [t |-> "undefined"]
EmptyObj == Obj([k \in {} |-> Undefined])

\* typeof v
TypeOf(v) ==
    CASE v.t = "string" -> "string"
      [] v.t = "number" -> "number"
      [] v.t = "undefined" -> "undefined"
      [] OTHER -> "object"

IsArray(v) == v.t = "array"

Has(o, k) == k \in DOMAIN o.m
\* o[k]: undefined when the key is absent
Get(o, k) == IF Has(o, k) THEN o.m[k] ELSE Undefined
\* o[k] = v
Put(o, k, v) == Obj([x \in DOMAIN o.m \cup {k} |-> IF x = k THEN v ELSE o.m[x]])
\* delete o[k]
Delete(o, k) == Obj([x \in DOMAIN o.m \ {k} |-> o.m[x]])

Maps(K, V) == UNION {[D -> V] : D \in SUBSET K}
SeqsUpTo(V, n) == UNION {[1..i -> V] : i \in 0..n}

----------------------------------------------------------------------------
(* Mongo.ObjectID *)

\* Identifier strings of the model: three hex encodings, two of them of the
\* same identifier (hex digits are case-insensitive), and two strings the
\* constructor rejects.
HexStrings == {"0a", "0A", "0b"}
BadStrings == {"zz", ""}
IdStrings == HexStrings \cup BadStrings

\* ObjectID.isValid for a string argument
IsValidHex(s) == s \in HexStrings

\* the identifier a hex string encodes
HexValue(s) ==
    CASE s = "0a" -> 10
      [] s = "0A" -> 10
      [] s = "0b" -> 11

Natives == {Oid(HexValue(s)) : s \in HexStrings}

\* new Mongo.ObjectID(v) throws for a string that is no identifier encoding
ObjectIDThrows(v) == v.t = "string" /\ ~IsValidHex(v.s)

\* new Mongo.ObjectID(v), for a valid string or an ObjectID (returned as is)
ObjectID(v) ==
    CASE v.t = "string" -> Oid(HexValue(v.s))
      [] v.t = "oid" -> v

----------------------------------------------------------------------------
(* Collection.processFilter *)

\* for..in visits an object's keys in insertion order; the objects of the
\* model are built in this order.
KeyOrder == <<"_id", "name", "$in", "$nin", "$eq", "$set", "a", "$gt">>

KeysOf(m) == SelectSeq(KeyOrder, LAMBDA k : k \in DOMAIN m)
IndicesOf(e) == [i \in 1..Len(e) |-> i]

\* the loop written with i < a.length - 1: the last element is not replaced
CoerceArrayOffByOne(e) ==
    LET bad == {i \in 1..(Len(e) - 1) : ObjectIDThrows(e[i])}
        stop == IF bad = {} THEN Len(e)
                ELSE CHOOSE i \in bad : \A j \in bad : i <= j
    IN  [e |-> [i \in 1..Len(e) |-> IF i < stop THEN ObjectID(e[i]) ELSE e[i]],
         thrown |-> bad # {}]

\* for(let i = 0; i < a.length; i++) a[i] = new Mongo.ObjectID(a[i]):
\* the elements before the first rejected one are replaced, then the throw.
CoerceArray(e) ==
    LET bad == {i \in 1..Len(e) : ObjectIDThrows(e[i])}
        stop == IF bad = {} THEN Len(e) + 1
                ELSE CHOOSE i \in bad : \A j \in bad : i <= j
    IN  [e |-> [i \in 1..Len(e) |-> IF i < stop THEN ObjectID(e[i]) ELSE e[i]],
         thrown |-> bad # {}]

\* for(let k2 in filter[k1]): every member that is an array is coerced;
\* m is the container's members, keys the members still to visit.
RECURSIVE CoerceMembers(_, _)
CoerceMembers(m, keys) ==
    IF keys = <<>> THEN [m |-> m, thrown |-> FALSE]
    ELSE LET k2 == Head(keys) IN
         IF IsArray(m[k2])
         THEN LET r == CoerceArray(m[k2].e)
                  m2 == [m EXCEPT ![k2] = Arr(r.e)]
              IN  IF r.thrown THEN [m |-> m2, thrown |-> TRUE]
                  ELSE CoerceMembers(m2, Tail(keys))
         ELSE CoerceMembers(m, Tail(keys))

\* case 'object': the value of _id after the inner loop
CoerceObject(id) ==
    CASE id.t = "object" ->
            LET r == CoerceMembers(id.m, KeysOf(id.m))
            IN  [v |-> Obj(r.m), thrown |-> r.thrown]
      [] id.t = "array" ->
            LET r == CoerceMembers(id.e, IndicesOf(id.e))
            IN  [v |-> Arr(r.m), thrown |-> r.thrown]
      [] OTHER -> [v |-> id, thrown |-> FALSE]  \* null, ObjectID: no array member

\* processFilter with the constructor's error caught and dropped
ProcessFilterSwallow(f) ==
    IF ~Has(f, "_id") THEN [filter |-> f, thrown |-> FALSE]
    ELSE LET id == f.m["_id"] IN
         CASE TypeOf(id) = "string" ->
                [filter |-> IF ObjectIDThrows(id) THEN f ELSE Put(f, "_id", ObjectID(id)),
                 thrown |-> FALSE]
           [] TypeOf(id) = "object" ->
                [filter |-> Put(f, "_id", CoerceObject(id).v), thrown |-> FALSE]
           [] OTHER -> [filter |-> f, thrown |-> FALSE]

\* processFilter(filter): the filter as the call leaves it, and whether the
\* call threw.  Only the key _id is acted on.
ProcessFilter(f) ==
    IF ~Has(f, "_id") THEN [filter |-> f, thrown |-> FALSE]
    ELSE LET id == f.m["_id"] IN
         CASE TypeOf(id) = "string" ->
                IF ObjectIDThrows(id) THEN [filter |-> f, thrown |-> TRUE]
                ELSE [filter |-> Put(f, "_id", ObjectID(id)), thrown |-> FALSE]
           [] TypeOf(id) = "object" ->
                LET r == CoerceObject(id)
                IN  [filter |-> Put(f, "_id", r.v), thrown |-> r.thrown]
           [] OTHER -> [filter |-> f, thrown |-> FALSE]

\* Filters the callers of the model build.
IdElements == {Str(s) : s \in IdStrings} \cup Natives
IdArrays == {Arr(e) : e \in SeqsUpTo(IdElements, MaxLen)}

\* an object holding the keys of f whose value is not undefined
ObjOf(f) == Obj([k \in {x \in DOMAIN f : f[x] # Undefined} |-> f[k]])

OpObjects ==
    {ObjOf([k \in {"$in", "$nin", "$eq"} |->
              CASE k = "$in" -> in [] k = "$nin" -> nin [] OTHER -> eq]) :
        in \in IdArrays \cup {Undefined},
        nin \in {Undefined, Arr(<<Str("0b")>>), Arr(<<Str("zz")>>)},
        eq \in {Undefined, Str("0a")}}

IdValues ==
    {Undefined, Num(1), Null, Arr(<<Str("0a")>>)}
        \cup {Str(s) : s \in IdStrings} \cup Natives \cup OpObjects

NameValues == {Undefined, Str("0a"), Obj([k \in {"$in"} |-> Arr(<<Str("0a")>>)])}

Filters ==
    {ObjOf([k \in {"_id", "name"} |-> IF k = "_id" THEN id ELSE name]) :
        id \in IdValues, name \in NameValues}

----------------------------------------------------------------------------
(* Collection.sanitizeFilter *)

\* /^\$/.test(key), over the keys of the model
StartsWithDollar(k) == k \in {"$in", "$nin", "$eq", "$set", "$gt"}

\* typeof v === 'object' && v !== null
IsObjectLike(v) == TypeOf(v) = "object" /\ v.t # "null"

\* sanitize(v) of mongo-sanitize, as the version the wrapper was written
\* over does it: the keys of v itself that start with $ are deleted.
Sanitize(v) ==
    IF v.t = "object"
    THEN Obj([k \in {x \in DOMAIN v.m : ~StartsWithDollar(x)} |-> v.m[k]])
    ELSE v

RECURSIVE SanitizeFilter(_)
\* this.sanitizeFilter(elm) inside forEach: elm is mutated in place and the
\* returned value dropped; a primitive or undefined member stays as it is.
SanitizeMember(elm) == IF IsObjectLike(elm) THEN SanitizeFilter(elm) ELSE elm

\* the members of a container after one forEach pass
SanitizeMembers(v) ==
    CASE v.t = "array" -> Arr([i \in DOMAIN v.e |-> SanitizeMember(v.e[i])])
      [] v.t = "object" -> Obj([k \in DOMAIN v.m |-> SanitizeMember(v.m[k])])
      [] OTHER -> v

\* sanitizeFilter without the two forEach passes
SanitizeFilterShallow(f) == Sanitize(IF f = Undefined THEN EmptyObj ELSE f)

\* sanitizeFilter(filter={}): an array is walked by both passes
SanitizeFilter(f) ==
    LET v0 == IF f = Undefined THEN EmptyObj ELSE f
        v1 == IF IsArray(v0) THEN SanitizeMembers(v0) ELSE v0
        v2 == IF IsObjectLike(v1) THEN SanitizeMembers(v1) ELSE v1
    IN  Sanitize(v2)

\* Nested structures of mappings and sequences, three levels deep.
SanKeys == {"a", "$gt"}
SanAtoms == {Num(1)}
Nest(V) ==
    SanAtoms \cup {Obj(m) : m \in Maps(SanKeys, V)}
             \cup {Arr(e) : e \in SeqsUpTo(V, SanLen)}
SanValues == Nest(Nest(Nest(SanAtoms)))

----------------------------------------------------------------------------
(* The driver's collection: what the native Collection does with a request *)

Bool(b) == [t |-> "boolean", b |-> b]
Return(v) == [kind |-> "return", v |-> v]
Throw(e) == [kind |-> "throw", v |-> [t |-> "error", name |-> e]]

\* a stored document as the driver returns it
Doc(n, name) == Obj([k \in {"_id", "name"} |-> IF k = "_id" THEN Oid(n) ELSE name])

\* a field's value against its criterion: a literal, or an operator-object
MatchValue(actual, crit) ==
    IF crit.t = "object"
    THEN \A o \in DOMAIN crit.m :
            CASE o = "$in" ->
                    IsArray(crit.m[o]) /\ \E i \in 1..Len(crit.m[o].e) : crit.m[o].e[i] = actual
              [] o = "$nin" ->
                    IsArray(crit.m[o]) /\ \A i \in 1..Len(crit.m[o].e) : crit.m[o].e[i] # actual
              [] OTHER -> crit.m[o] = actual
    ELSE crit = actual

\* the stored documents a filter selects (an ObjectId never equals a string)
Matching(d, f) ==
    {n \in DOMAIN d :
        \A k \in DOMAIN f.m :
            MatchValue(IF k = "_id" THEN Oid(n) ELSE d[n], f.m[k])}

First(S) == CHOOSE n \in S : \A x \in S : n <= x

\* the server refuses an update that would give a document another _id
WritesOtherId(n, update) ==
    /\ Has(update, "$set") /\ Has(update.m["$set"], "_id")
    /\ update.m["$set"].m["_id"] # Oid(n)

Request(o, f, p, matched, rejected) ==
    [op |-> o, filter |-> f, payload |-> p, matched |-> matched, rejected |-> rejected]
NoRequest == Request("none", Undefined, Undefined, 0, FALSE)

L(level, msg) == <<level, msg>>
Outcome(d, s, r, l) == [docs |-> d, sent |-> s, ret |-> r, log |-> l]

----------------------------------------------------------------------------
(* Collection operations: each gives the outcome of one call on the store  *)
(* docs, with fail saying whether the remote store rejects the request.    *)

\* deleteDocument(filter, options)
DeleteDocument(f, fail) ==
    LET pf == ProcessFilter(f)
        head == <<L("debug", "Deleting document"), L("verbose", "filter"),
                  L("verbose", "options")>>
        hit == Matching(docs, pf.filter)
    IN  IF pf.thrown THEN Outcome(docs, NoRequest, Throw("InvalidId"), head)
        ELSE IF fail
        THEN Outcome(docs, Request("deleteOne", pf.filter, Undefined, Cardinality(hit), TRUE),
                     Throw("MongoError"), head)
        ELSE LET req == Request("deleteOne", pf.filter, Undefined, Cardinality(hit), FALSE)
                 deletedCount == IF hit = {} THEN 0 ELSE 1
             IN  IF deletedCount # 0
                 THEN Outcome([n \in DOMAIN docs \ {First(hit)} |-> docs[n]], req,
                              Return(Bool(TRUE)),
                              Append(head, L("info", "Deleted document")))
                 ELSE Outcome(docs, req, Return(Bool(FALSE)),
                              Append(head, L("error", "Failed to delete document")))

\* getDocument(filter, options)
GetDocument(f, fail) ==
    LET pf == ProcessFilter(f)
        head == <<L("debug", "Getting document"), L("verbose", "filter"),
                  L("verbose", "options")>>
        hit == Matching(docs, pf.filter)
    IN  IF pf.thrown THEN Outcome(docs, NoRequest, Throw("InvalidId"), head)
        ELSE IF fail
        THEN Outcome(docs, Request("findOne", pf.filter, Undefined, Cardinality(hit), TRUE),
                     Throw("MongoError"), head)
        ELSE LET req == Request("findOne", pf.filter, Undefined, Cardinality(hit), FALSE)
             IN  IF hit # {}
                 THEN Outcome(docs, req, Return(Doc(First(hit), docs[First(hit)])),
                              Append(head, L("debug", "Got document")))
                 ELSE Outcome(docs, req, Return(Null),
                              Append(head, L("debug", "Failed to find document")))

RECURSIVE Take(_, _, _)
\* the first limit documents of S, by _id
Take(d, S, limit) ==
    IF S = {} \/ limit = 0 THEN <<>>
    ELSE <<Doc(First(S), d[First(S)])>> \o Take(d, S \ {First(S)}, limit - 1)

\* getDocuments(filter={}, options={limit:10}); fail is the cursor's error
GetDocuments(f, limit, fail) ==
    LET pf == ProcessFilter(IF f = Undefined THEN EmptyObj ELSE f)
        head == <<L("debug", "Getting documents"), L("verbose", "filter"),
                  L("verbose", "options")>>
        hit == Matching(docs, pf.filter)
    IN  IF pf.thrown THEN Outcome(docs, NoRequest, Throw("InvalidId"), head)
        ELSE IF fail
        THEN Outcome(docs, Request("find", pf.filter, Undefined, Cardinality(hit), TRUE),
                     Throw("MongoError"), head)
        ELSE Outcome(docs, Request("find", pf.filter, Undefined, Cardinality(hit), FALSE),
                     Return(Arr(Take(docs, hit, limit))), head)

\* getCount(filter={}, options={}): the filter goes to the driver as passed
GetCount(f, fail) ==
    LET f0 == IF f = Undefined THEN EmptyObj ELSE f
        head == <<L("debug", "Getting document count"), L("verbose", "options")>>
        hit == Matching(docs, f0)
    IN  IF fail
        THEN Outcome(docs, Request("countDocuments", f0, Undefined, Cardinality(hit), TRUE),
                     Throw("MongoError"), head)
        ELSE Outcome(docs, Request("countDocuments", f0, Undefined, Cardinality(hit), FALSE),
                     Return(Num(Cardinality(hit))), head)

\* insertDocument(document, options): the result object is returned as is;
\* the server refuses a document whose _id is already stored
InsertDocument(document, fail) ==
    LET head == <<L("debug", "Inserting document"), L("verbose", "document"),
                  L("verbose", "options")>>
        n == document.m["_id"].n
        refused == fail \/ n \in DOMAIN docs
        req == Request("insertOne", Undefined, document, 0, refused)
    IN  IF refused THEN Outcome(docs, req, Throw("MongoError"), head)
        ELSE Outcome([x \in DOMAIN docs \cup {n} |->
                         IF x = n THEN document.m["name"] ELSE docs[x]],
                     req,
                     Return(Obj([k \in {"insertedCount", "insertedId"} |->
                                   IF k = "insertedCount" THEN Num(1) ELSE Oid(n)])),
                     Append(head, L("info", "Inserted document")))

\* replaceDocument(filter, document, options): modifiedCount is 0 when the
\* stored document already equals the replacement
ReplaceDocument(f, document, fail) ==
    LET document1 == Delete(document, "_id")
        head == <<L("debug", "Replacing document"), L("verbose", "filter"),
                  L("verbose", "document"), L("verbose", "options")>>
        pf == ProcessFilter(f)
        hit == Matching(docs, pf.filter)
    IN  IF pf.thrown THEN Outcome(docs, NoRequest, Throw("InvalidId"), head)
        ELSE IF fail
        THEN Outcome(docs, Request("replaceOne", pf.filter, document1, Cardinality(hit), TRUE),
                     Throw("MongoError"), head)
        ELSE LET req == Request("replaceOne", pf.filter, document1, Cardinality(hit), FALSE)
                 modifiedCount ==
                    IF hit # {} /\ docs[First(hit)] # document1.m["name"] THEN 1 ELSE 0
             IN  IF modifiedCount # 0
                 THEN Outcome([docs EXCEPT ![First(hit)] = document1.m["name"]], req,
                              Return(Bool(TRUE)),
                              Append(head, L("info", "Replaced document")))
                 ELSE Outcome(docs, req, Return(Bool(FALSE)),
                              Append(head, L("error", "Failed to replace document")))

\* updateDocument(filter, update, options): modifiedCount is 0 when the
\* update leaves the matched document as it was
UpdateDocument(f, update, fail) ==
    LET update1 == Delete(update, "_id")
        head == <<L("debug", "Updating document"), L("verbose", "filter"),
                  L("verbose", "update"), L("verbose", "options")>>
        pf == ProcessFilter(f)
        hit == Matching(docs, pf.filter)
        refused == fail \/ (hit # {} /\ WritesOtherId(First(hit), update1))
    IN  IF pf.thrown THEN Outcome(docs, NoRequest, Throw("InvalidId"), head)
        ELSE IF refused
        THEN Outcome(docs, Request("updateOne", pf.filter, update1, Cardinality(hit), TRUE),
                     Throw("MongoError"), head)
        ELSE LET req == Request("updateOne", pf.filter, update1, Cardinality(hit), FALSE)
                 name == update1.m["$set"].m["name"]
                 modifiedCount == IF hit # {} /\ docs[First(hit)] # name THEN 1 ELSE 0
             IN  IF modifiedCount # 0
                 THEN Outcome([docs EXCEPT ![First(hit)] = name], req,
                              Return(Bool(TRUE)),
                              Append(head, L("info", "Updated document")))
                 ELSE Outcome(docs, req, Return(Bool(FALSE)),
                              Append(head, L("warning", "Failed to update document")))

\* drop() with the error thrown again at the end of the catch
DropRethrows(fail) ==
    LET head == <<L("debug", "Dropping collection")>>
        req == Request("drop", Undefined, Undefined, 0, fail)
    IN  IF fail
        THEN Outcome(docs, req, Throw("MongoError"),
                     head \o <<L("error", "Failed to drop collection"), L("error", "err")>>)
        ELSE Outcome(<<>>, req, Return(Undefined),
                     Append(head, L("info", "Dropped collection")))

\* drop(): the promise resolves with undefined on both paths
Drop(fail) ==
    LET head == <<L("debug", "Dropping collection")>>
        req == Request("drop", Undefined, Undefined, 0, fail)
    IN  IF fail
        THEN Outcome(docs, req, Return(Undefined),
                     head \o <<L("error", "Failed to drop collection"), L("error", "err")>>)
        ELSE Outcome(<<>>, req, Return(Undefined),
                     Append(head, L("info", "Dropped collection")))

\* wipe(): deleteMany({})
Wipe(fail) ==
    LET head == <<L("debug", "Wiping collection")>>
        req == Request("deleteMany", EmptyObj, Undefined, Cardinality(DOMAIN docs), fail)
    IN  IF fail
        THEN Outcome(docs, req, Return(Undefined),
                     head \o <<L("error", "Failed to wipe collection"), L("error", "err")>>)
        ELSE Outcome(<<>>, req, Return(Undefined),
                     Append(head, L("info", "Wiped collection")))

----------------------------------------------------------------------------
(* Values of the variables a specification does not use *)

FilterIdle ==
    /\ filter = Undefined /\ given = Undefined /\ prev = Undefined
    /\ fpc = "ready" /\ calls = 0
CollIdle ==
    /\ call = Undefined /\ docs = <<>> /\ sent = Undefined
    /\ ret = Undefined /\ log = <<>>
UrlIdle == options = Undefined /\ url = Undefined
DbIdle ==
    /\ collection_names = <<>> /\ collections = {} /\ remote = {}
    /\ discovered = {} /\ created = <<>> /\ missing = <<>>
    /\ failures = 0 /\ connected = FALSE /\ dpc = "idle"

----------------------------------------------------------------------------
(* processFilter called on a filter, and called again on what it left *)

FilterInit ==
    /\ filter \in Filters
    /\ given = filter /\ prev = filter /\ fpc = "ready" /\ calls = 0
    /\ CollIdle /\ UrlIdle /\ DbIdle

ProcessFilterReturns ==
    /\ calls < MaxCalls
    /\ ~ProcessFilter(filter).thrown
    /\ filter' = ProcessFilter(filter).filter
    /\ prev' = filter
    /\ fpc' = "returned"
    /\ calls' = calls + 1
    /\ UNCHANGED <<given, collVars, urlVars, dbVars>>

ProcessFilterThrows ==
    /\ calls < MaxCalls
    /\ ProcessFilter(filter).thrown
    /\ filter' = ProcessFilter(filter).filter
    /\ prev' = filter
    /\ fpc' = "thrown"
    /\ calls' = calls + 1
    /\ UNCHANGED <<given, collVars, urlVars, dbVars>>

FilterNext == ProcessFilterReturns \/ ProcessFilterThrows

SpecFilter == FilterInit /\ [][FilterNext]_vars

----------------------------------------------------------------------------
(* sanitizeFilter called on a nested structure, and called again *)

SanitizeInit ==
    /\ filter \in SanValues
    /\ given = filter /\ prev = filter /\ fpc = "ready" /\ calls = 0
    /\ CollIdle /\ UrlIdle /\ DbIdle

SanitizeFilterCall ==
    /\ calls < MaxCalls
    /\ filter' = SanitizeFilter(filter)
    /\ prev' = filter
    /\ fpc' = "returned"
    /\ calls' = calls + 1
    /\ UNCHANGED <<given, collVars, urlVars, dbVars>>

SanitizeNext == SanitizeFilterCall

SpecSanitize == SanitizeInit /\ [][SanitizeNext]_vars

----------------------------------------------------------------------------
(* Calls on a Collection over a small store *)

DefaultLimit == 10

Called(o, f, p) == [op |-> o, filter |-> f, payload |-> p]

StoreIds == {10, 11}
StoreNames == {Str("x"), Str("y")}

CollFilters ==
    {EmptyObj,
     Obj([k \in {"_id"} |-> Str("0a")]),
     Obj([k \in {"_id"} |-> Str("0b")]),
     Obj([k \in {"_id"} |-> Str("zz")]),
     Obj([k \in {"_id"} |-> Oid(10)]),
     Obj([k \in {"name"} |-> Str("x")]),
     Obj([k \in {"_id"} |-> Obj([o \in {"$in"} |-> Arr(<<Str("0a"), Str("0b")>>)])]),
     Obj([k \in {"_id"} |-> Obj([o \in {"$eq"} |-> Str("0a")])])}

SetOf(m) == Obj([k \in {"$set"} |-> Obj(m)])

Updates ==
    {SetOf([k \in {"name"} |-> Str("x")]),
     SetOf([k \in {"name"} |-> Str("y")]),
     Put(SetOf([k \in {"name"} |-> Str("y")]), "_id", Str("0b")),
     SetOf([k \in {"_id", "name"} |-> IF k = "_id" THEN Oid(11) ELSE Str("y")])}

Documents == {Doc(n, name) : n \in StoreIds, name \in StoreNames}
Replacements == Documents \cup {Delete(d, "_id") : d \in Documents}
Limits == {DefaultLimit, 1}

CollInit ==
    /\ docs \in Maps(StoreIds, StoreNames)
    /\ call = Called("none", Undefined, Undefined)
    /\ sent = NoRequest
    /\ ret = Return(Undefined)
    /\ log = <<>>
    /\ FilterIdle /\ UrlIdle /\ DbIdle

Apply(o) == docs' = o.docs /\ sent' = o.sent /\ ret' = o.ret /\ log' = o.log

DeleteDocumentCall ==
    \E f \in CollFilters, fail \in BOOLEAN :
        /\ call' = Called("deleteDocument", f, Undefined)
        /\ Apply(DeleteDocument(f, fail))
        /\ UNCHANGED <<filterVars, urlVars, dbVars>>

GetDocumentCall ==
    \E f \in CollFilters, fail \in BOOLEAN :
        /\ call' = Called("getDocument", f, Undefined)
        /\ Apply(GetDocument(f, fail))
        /\ UNCHANGED <<filterVars, urlVars, dbVars>>

GetDocumentsCall ==
    \E f \in CollFilters \cup {Undefined}, limit \in Limits, fail \in BOOLEAN :
        /\ call' = Called("getDocuments", f, Num(limit))
        /\ Apply(GetDocuments(f, limit, fail))
        /\ UNCHANGED <<filterVars, urlVars, dbVars>>

GetCountCall ==
    \E f \in CollFilters \cup {Undefined}, fail \in BOOLEAN :
        /\ call' = Called("getCount", f, Undefined)
        /\ Apply(GetCount(f, fail))
        /\ UNCHANGED <<filterVars, urlVars, dbVars>>

InsertDocumentCall ==
    \E d \in Documents, fail \in BOOLEAN :
        /\ call' = Called("insertDocument", Undefined, d)
        /\ Apply(InsertDocument(d, fail))
        /\ UNCHANGED <<filterVars, urlVars, dbVars>>

ReplaceDocumentCall ==
    \E f \in CollFilters, d \in Replacements, fail \in BOOLEAN :
        /\ call' = Called("replaceDocument", f, d)
        /\ Apply(ReplaceDocument(f, d, fail))
        /\ UNCHANGED <<filterVars, urlVars, dbVars>>

UpdateDocumentCall ==
    \E f \in CollFilters, u \in Updates, fail \in BOOLEAN :
        /\ call' = Called("updateDocument", f, u)
        /\ Apply(UpdateDocument(f, u, fail))
        /\ UNCHANGED <<filterVars, urlVars, dbVars>>

DropCall ==
    \E fail \in BOOLEAN :
        /\ call' = Called("drop", Undefined, Undefined)
        /\ Apply(Drop(fail))
        /\ UNCHANGED <<filterVars, urlVars, dbVars>>

WipeCall ==
    \E fail \in BOOLEAN :
        /\ call' = Called("wipe", Undefined, Undefined)
        /\ Apply(Wipe(fail))
        /\ UNCHANGED <<filterVars, urlVars, dbVars>>

CollNext ==
    \/ DeleteDocumentCall \/ GetDocumentCall \/ GetDocumentsCall \/ GetCountCall
    \/ InsertDocumentCall \/ ReplaceDocumentCall \/ UpdateDocumentCall
    \/ DropCall \/ WipeCall

SpecColl == CollInit /\ [][CollNext]_vars

----------------------------------------------------------------------------
(* Database: the constructor and createUrl *)

DefaultPort == 27017

\* a string built by concatenation, kept as its pieces
Cat(parts) == [t |-> "string", parts |-> parts]

\* `${v}` for the values of the model
Text(v) ==
    CASE v.t = "string" -> v.s
      [] v = Num(DefaultPort) -> "27017"
      [] v = Num(1) -> "1"

\* typeof v === "string" && v.length
IsNonEmptyString(v) == v.t = "string" /\ v.s # ""

\* a destructured parameter takes its default when the option is undefined
Default(v, d) == IF v = Undefined THEN d ELSE v

\* createUrl({username, password, host, port, name})
CreateUrl(username, password, host, port, name) ==
    Cat(<<"mongodb://">>
        \o (IF IsNonEmptyString(username) /\ IsNonEmptyString(password)
            THEN <<username.s, ":", password.s, "@">> ELSE <<>>)
        \o <<Text(host), ":", Text(port)>>
        \o (IF IsNonEmptyString(name) THEN <<"/", name.s>> ELSE <<>>))

\* the constructor's choice of this.url
DatabaseUrl(o) ==
    LET name == Default(o.name, Str("admin"))
        host == Default(o.host, Str("localhost"))
        port == Default(o.port, Num(DefaultPort))
        username == Default(o.username, Str(""))
        password == Default(o.password, Str(""))
        u == Default(o.url, Null)
    IN  IF TypeOf(u) = "string" THEN Cat(<<u.s>>)
        ELSE CreateUrl(username, password, host, port, name)

OptionSets ==
    [url : {Undefined, Null, Str(""), Str("mongodb://example:1/x")},
     username : {Undefined, Str(""), Str("u"), Num(1)},
     password : {Undefined, Str(""), Str("p"), Null},
     name : {Undefined, Str(""), Str("db")},
     host : {Undefined, Str("h")},
     port : {Undefined, Num(1)}]

UrlInit ==
    /\ options \in OptionSets
    /\ url = Undefined
    /\ FilterIdle /\ CollIdle /\ DbIdle

Constructor ==
    /\ url = Undefined
    /\ url' = DatabaseUrl(options)
    /\ UNCHANGED <<options, filterVars, collVars, dbVars>>

UrlNext == Constructor

SpecUrl == UrlInit /\ [][UrlNext]_vars

----------------------------------------------------------------------------
(* Database.initialize, one action for each stretch between two awaits *)

Names == {"users", "posts"}

Range(q) == {q[i] : i \in 1..Len(q)}

DbInit ==
    /\ collection_names \in SeqsUpTo(Names, MaxNames)
    /\ remote \in SUBSET Names
    /\ collections = {}
    /\ discovered = {}
    /\ created = <<>>
    /\ missing = <<>>
    /\ failures = 0
    /\ connected = FALSE
    /\ dpc = "connect"
    /\ ret = Undefined
    /\ log = <<>>
    /\ call = Undefined /\ docs = <<>> /\ sent = Undefined
    /\ FilterIdle /\ UrlIdle

\* connect(): client.connect() resolves and isConnected() is true; then
\* this.db = this.getDatabase(this.name)
ConnectSucceeds ==
    /\ dpc = "connect"
    /\ connected' = TRUE
    /\ log' = log \o <<L("debug", "Connecting"), L("info", "Connected")>>
    /\ dpc' = "getCollections"
    /\ UNCHANGED <<collection_names, collections, remote, discovered, created, missing,
                   failures, ret, call, docs, sent, filterVars, urlVars>>

\* connect(): client.connect() rejects, or isConnected() is false and
\* connect throws; initialize rejects with the error
ConnectFails ==
    /\ dpc = "connect"
    /\ \E e \in {"MongoError", "Failed to connect"} : ret' = Throw(e)
    /\ log' = Append(log, L("debug", "Connecting"))
    /\ failures' = failures + 1
    /\ dpc' = "failed"
    /\ UNCHANGED <<collection_names, collections, remote, discovered, created, missing,
                   connected, call, docs, sent, filterVars, urlVars>>

\* getCollections(): toArray gives the items; each is registered
GetCollectionsSucceeds ==
    /\ dpc = "getCollections"
    /\ discovered' = remote
    /\ collections' = collections \cup remote
    /\ log' = Append(log, L("debug", "Getting database collections"))
              \o (IF remote = {} THEN <<L("info", "No collections found")>>
                  ELSE [i \in 1..Cardinality(remote) |-> L("debug", "Found collection")])
    /\ dpc' = "createCollections"
    /\ UNCHANGED <<collection_names, remote, created, missing, failures, connected,
                   ret, call, docs, sent, filterVars, urlVars>>

\* getCollections(): toArray gives an error; the promise rejects, and
\* initialize, which awaits it outside any try, rejects with it
GetCollectionsFails ==
    /\ dpc = "getCollections"
    /\ log' = log \o <<L("debug", "Getting database collections"),
                       L("error", "Failed to get database collections")>>
    /\ failures' = failures + 1
    /\ ret' = Throw("MongoError")
    /\ dpc' = "failed"
    /\ UNCHANGED <<collection_names, collections, remote, discovered, created, missing,
                   connected, call, docs, sent, filterVars, urlVars>>

\* the names of the list that are no key of the Map, one entry for each place
\* in the list
MissingOf(names, registered) == SelectSeq(names, LAMBDA name : name \notin registered)

\* createCollections(collections): the first loop
CreateCollections ==
    /\ dpc = "createCollections"
    /\ missing' = MissingOf(collection_names, collections)
    /\ dpc' = "createCollection"
    /\ UNCHANGED <<collection_names, collections, remote, discovered, created, failures,
                   connected, ret, log, call, docs, sent, filterVars, urlVars>>

\* createCollection(missing[i]): the server creates it and it is registered
CreateCollectionSucceeds ==
    /\ dpc = "createCollection" /\ missing # <<>>
    /\ created' = Append(created, Head(missing))
    /\ remote' = remote \cup {Head(missing)}
    /\ collections' = collections \cup {Head(missing)}
    /\ log' = log \o <<L("debug", "Creating collection"), L("info", "Created collection")>>
    /\ missing' = Tail(missing)
    /\ UNCHANGED <<collection_names, discovered, failures, connected, dpc,
                   ret, call, docs, sent, filterVars, urlVars>>

\* createCollection(missing[i]): the server refuses; the catch logs it
CreateCollectionFails ==
    /\ dpc = "createCollection" /\ missing # <<>>
    /\ created' = Append(created, Head(missing))
    /\ log' = log \o <<L("debug", "Creating collection"),
                       L("error", "Failed to create collection"), L("error", "err")>>
    /\ failures' = failures + 1
    /\ missing' = Tail(missing)
    /\ UNCHANGED <<collection_names, collections, remote, discovered, connected, dpc,
                   ret, call, docs, sent, filterVars, urlVars>>

\* initialize(): return true
InitializeReturns ==
    /\ dpc = "createCollection" /\ missing = <<>>
    /\ ret' = Return(Bool(TRUE))
    /\ dpc' = "done"
    /\ UNCHANGED <<collection_names, collections, remote, discovered, created, missing,
                   failures, connected, log, call, docs, sent, filterVars, urlVars>>

DbNext ==
    \/ ConnectSucceeds \/ ConnectFails
    \/ GetCollectionsSucceeds \/ GetCollectionsFails
    \/ CreateCollections
    \/ CreateCollectionSucceeds \/ CreateCollectionFails
    \/ InitializeReturns

SpecDb == DbInit /\ [][DbNext]_vars

----------------------------------------------------------------------------
(* Claims about processFilter *)

IsValidIdString(v) == v.t = "string" /\ IsValidHex(v.s)
AllValidIdStrings(a) == IsArray(a) /\ \A i \in 1..Len(a.e) : IsValidIdString(a.e[i])
ArrayKeys(o) == {k \in DOMAIN o.m : IsArray(o.m[k])}

\* C7: processFilter replaces a valid top-level _id string by the native
\* identifier of that string; under an operator-object _id it replaces each
\* element of a sequence of valid identifier strings by its native
\* identifier, keeping length and order; and a second call on the result
\* changes nothing.
C7_CoercesAndIsIdempotent ==
    (calls >= 1 /\ Has(given, "_id")) =>
        LET id == given.m["_id"] IN
        /\ IsValidIdString(id) =>
              /\ fpc = "returned"
              /\ filter.m["_id"] = Oid(HexValue(id.s))
        /\ (id.t = "object" /\ \A k \in ArrayKeys(id) : AllValidIdStrings(id.m[k])) =>
              /\ fpc = "returned"
              /\ \A k \in ArrayKeys(id) :
                    /\ IsArray(filter.m["_id"].m[k])
                    /\ Len(filter.m["_id"].m[k].e) = Len(id.m[k].e)
                    /\ \A i \in 1..Len(id.m[k].e) :
                          filter.m["_id"].m[k].e[i] = Oid(HexValue(id.m[k].e[i].s))
        /\ (fpc = "returned" /\ calls >= 2) => filter = prev

\* two valid strings under $in, coerced in order, and a second call made
C7_Witness ==
    /\ calls = 2 /\ fpc = "returned"
    /\ Has(given, "_id") /\ given.m["_id"].t = "object"
    /\ Has(given.m["_id"], "$in")
    /\ given.m["_id"].m["$in"] = Arr(<<Str("0b"), Str("0A")>>)
    /\ filter.m["_id"].m["$in"] = Arr(<<Oid(11), Oid(10)>>)

\* an invalid identifier string as the top-level _id or as an element of an
\* array under an operator of _id
HasInvalidId(f) ==
    /\ Has(f, "_id")
    /\ LET id == f.m["_id"] IN
       \/ ObjectIDThrows(id)
       \/ /\ id.t = "object"
          /\ \E k \in ArrayKeys(id) : \E i \in 1..Len(id.m[k].e) :
                ObjectIDThrows(id.m[k].e[i])

OtherFieldsKept(f, g) ==
    /\ DOMAIN f.m = DOMAIN g.m
    /\ \A k \in DOMAIN g.m \ {"_id"} : f.m[k] = g.m[k]

\* C9: processFilter on a filter with an invalid identifier string throws the
\* constructor's error to its caller and leaves every field other than _id
\* as it was; a filter without _id is returned unchanged without error; no
\* key other than the top-level _id is ever modified.
C9_InvalidIdThrowsOthersKept ==
    calls >= 1 =>
        /\ HasInvalidId(given) => fpc = "thrown"
        /\ OtherFieldsKept(filter, given)
        /\ ~Has(given, "_id") => (fpc = "returned" /\ filter = given)

\* the second element of $in is rejected after the first was replaced, and
\* the filter has another field
C9_Witness ==
    /\ calls = 1 /\ fpc = "thrown"
    /\ Has(given, "name") /\ Has(given, "_id")
    /\ given.m["_id"].t = "object" /\ Has(given.m["_id"], "$in")
    /\ given.m["_id"].m["$in"] = Arr(<<Str("0a"), Str("zz")>>)
    /\ filter.m["_id"].m["$in"] = Arr(<<Oid(10), Str("zz")>>)
    /\ filter.m["name"] = given.m["name"]

----------------------------------------------------------------------------
(* Claims about sanitizeFilter *)

RECURSIVE NoDollarKey(_)
\* no key starting with $ at any depth
NoDollarKey(v) ==
    CASE v.t = "object" ->
            \A k \in DOMAIN v.m : ~StartsWithDollar(k) /\ NoDollarKey(v.m[k])
      [] v.t = "array" -> \A i \in 1..Len(v.e) : NoDollarKey(v.e[i])
      [] OTHER -> TRUE

RECURSIVE PlainKept(_, _)
\* every key of g without the prefix is a key of f, with its value when the
\* value is no container, at every depth
PlainKept(g, f) ==
    CASE g.t = "object" ->
            /\ f.t = "object"
            /\ \A k \in DOMAIN g.m :
                  ~StartsWithDollar(k) => (k \in DOMAIN f.m /\ PlainKept(g.m[k], f.m[k]))
      [] g.t = "array" ->
            /\ f.t = "array" /\ Len(f.e) = Len(g.e)
            /\ \A i \in 1..Len(g.e) : PlainKept(g.e[i], f.e[i])
      [] OTHER -> f = g

\* C8: after sanitizeFilter no key at any depth starts with $, every key
\* without the prefix is kept with its non-container value, and a second
\* call changes nothing.
C8_SanitizeStripsAllDepths ==
    calls >= 1 =>
        /\ NoDollarKey(filter)
        /\ PlainKept(given, filter)
        /\ calls >= 2 => filter = prev

\* {a: [{$gt: 1, a: 1}], $gt: {a: 1}} sanitized twice
C8_Witness ==
    /\ calls = 2
    /\ given = Obj([k \in {"a", "$gt"} |->
                      IF k = "a" THEN Arr(<<Obj([j \in {"$gt", "a"} |-> Num(1)])>>)
                      ELSE Obj([j \in {"a"} |-> Num(1)])])
    /\ filter = Obj([k \in {"a"} |-> Arr(<<Obj([j \in {"a"} |-> Num(1)])>>)])

----------------------------------------------------------------------------
(* Claims about the Collection operations *)

FilterOps ==
    {"getDocument", "getDocuments", "getCount", "replaceDocument",
     "updateDocument", "deleteDocument"}
WriteOps == {"deleteDocument", "updateDocument", "replaceDocument"}

\* C1: whenever a filter-taking operation is called with a valid identifier
\* string as the top-level _id of its filter, the filter the driver receives
\* has _id in native form.
C1_FilterCoercedBeforeDriver ==
    (/\ call.op \in FilterOps
     /\ sent.op # "none"
     /\ call.filter # Undefined
     /\ IsValidIdString(Get(call.filter, "_id")))
        => sent.filter.m["_id"] = Oid(HexValue(call.filter.m["_id"].s))

HasFailureRecord == \E i \in 1..Len(log) : log[i][1] \in {"error", "warning"}

\* C2 as stated: when the driver call fails, deleteDocument, updateDocument,
\* replaceDocument, drop and wipe log a record and return false, and throw
\* nothing.
C2_FailureGivesFalse ==
    (call.op \in WriteOps \cup {"drop", "wipe"} /\ sent.rejected)
        => (ret = Return(Bool(FALSE)) /\ log # <<>>)

\* C2 as amended: when the driver call fails, drop and wipe log error
\* records and resolve with undefined without throwing; deleteDocument,
\* updateDocument and replaceDocument log no failure record and throw the
\* driver's error to the caller.
C2_FailureSwallowedOnlyByDropWipe ==
    sent.rejected =>
        /\ call.op \in {"drop", "wipe"} =>
              (ret = Return(Undefined) /\ \E i \in 1..Len(log) : log[i][1] = "error")
        /\ call.op \in WriteOps =>
              (ret = Throw("MongoError") /\ ~HasFailureRecord)

\* the store rejects the deleteOne of a deleteDocument whose filter selects
\* a stored document: the error reaches the caller and the document stays
C2_Witness ==
    /\ call.op = "deleteDocument" /\ sent.op = "deleteOne" /\ sent.rejected
    /\ sent.matched = 1
    /\ ret = Throw("MongoError")
    /\ ~HasFailureRecord
    /\ docs # <<>>

\* C3: deleteDocument, updateDocument and replaceDocument return false when
\* the filter matches no document and true when it matches exactly one, also
\* when the matched document is left with the content it had.
C3_TrueIffMatched ==
    (call.op \in WriteOps /\ sent.op # "none" /\ ~sent.rejected) =>
        /\ sent.matched = 0 => ret = Return(Bool(FALSE))
        /\ sent.matched = 1 => ret = Return(Bool(TRUE))

\* C6: the payload replaceDocument and updateDocument hand to the driver has
\* no _id, neither as a top-level key nor under $set.
C6_PayloadCarriesNoId ==
    sent.op \in {"replaceOne", "updateOne"} =>
        /\ ~Has(sent.payload, "_id")
        /\ Has(sent.payload, "$set") => ~Has(sent.payload.m["$set"], "_id")

----------------------------------------------------------------------------
(* Claims about the Database *)

Count(q, x) == Cardinality({i \in 1..Len(q) : q[i] = x})

\* C4: once connect has succeeded, a failure of discovery or of a creation
\* does not abort initialize: it is logged, a create is still issued for every
\* requested name that is not registered, and initialize returns true.
C4_FailuresDoNotAbort ==
    (connected /\ dpc \in {"done", "failed"}) =>
        /\ ret = Return(Bool(TRUE))
        /\ \A name \in Range(collection_names) :
              name \in collections \/ Count(created, name) > 0
        /\ failures > 0 => \E i \in 1..Len(log) : log[i][1] = "error"

\* C5: after an initialize in which no call failed, the registry holds the
\* discovered names and the requested names, and exactly one create was
\* issued for each requested name that discovery did not register, none for
\* any other name.
C5_OneCreatePerMissingName ==
    (dpc = "done" /\ failures = 0) =>
        /\ collections = discovered \cup Range(collection_names)
        /\ \A name \in Names :
              Count(created, name) =
                 (IF name \in Range(collection_names) \ discovered THEN 1 ELSE 0)

\* the URL the claim describes: mongodb://[user:pass@]host:port[/name]
ClaimedUrl(o) ==
    IF IsNonEmptyString(o.url) THEN Cat(<<o.url.s>>)
    ELSE Cat(<<"mongodb://">>
             \o (IF IsNonEmptyString(o.username) /\ IsNonEmptyString(o.password)
                 THEN <<o.username.s, ":", o.password.s, "@">> ELSE <<>>)
             \o <<IF o.host = Undefined THEN "localhost" ELSE o.host.s, ":",
                  IF o.port = Undefined THEN "27017" ELSE "1">>
             \o (IF o.name = Undefined THEN <<"/", "admin">>
                 ELSE IF o.name.s # "" THEN <<"/", o.name.s>> ELSE <<>>))

\* C10: a non-empty url string is used verbatim; with url absent, null or
\* empty the URL is synthesized, with credentials only when username and
\* password are both non-empty strings.
C10_UrlChoice == url # Undefined => url = ClaimedUrl(options)

====
